---------------------------- MODULE Spec2Model ----------------------------
(***************************************************************************)
(* Resume text extraction of the ATS job-application page                  *)
(* (src/ATS/src/pages/JobDetails.tsx): sanitizeText, the plain-text        *)
(* reader, the PDF chain with its OCR fallback, the Word extractor, the AI *)
(* enhancement call, handleFileChange and handleSubmit.                    *)
(*                                                                         *)
(* Strings.  A JavaScript string is modelled as its run-length encoding: a *)
(* sequence of segments [c |-> code unit, n |-> repetitions], n >= 1, with *)
(* adjacent segments of different code units.  The encoding is canonical,  *)
(* so two strings are equal exactly when their encodings are equal, and a  *)
(* string of 100,001 characters is a value the model can hold.             *)
(***************************************************************************)
EXTENDS Integers, Sequences, FiniteSets, TLC

VARIABLES
    resumeFile,        \* useState<File | null>        (JobDetails.tsx:46)
    resumeText,        \* useState<string>("")         (JobDetails.tsx:58)
    isPdfFile,         \* useState(false)              (JobDetails.tsx:59)
    extractionMethod,  \* useState<string>("none")     (JobDetails.tsx:60)
    ocrProgress,       \* useState(0)                  (JobDetails.tsx:61)
    isOcrProcessing,   \* useState(false)              (JobDetails.tsx:62)
    hasApplied,        \* useState(false)              (JobDetails.tsx:49)
    frames,            \* the invocations of handleFileChange: their locals
                       \* and the await each one is suspended at
    orphanTimer,       \* an interval of an ended OCR invocation still runs
    application,       \* the row inserted into "applications"
    fnPc,              \* position of a pure-function evaluation
    fnIn,              \* its argument
    fnArg,             \* its second argument (the AI reply), when it has one
    fnOut,             \* its result
    fnPrev             \* the result of the previous application

fnVars == <<fnPc, fnIn, fnArg, fnOut, fnPrev>>

-----------------------------------------------------------------------------
(* Bounds of the model *)

\* Longest input string of the sanitizer runs, in segments.
MaxSegs == 3

\* Longest text and longest AI completion of the enhancement runs, in segments.
MaxEnhSegs == 2

-----------------------------------------------------------------------------
(* Program constants *)

\* .substring(0, 100000)
MaxTextLength == 100000

\* file.size > 10 * 1024 * 1024
MaxFileSize == 10485760

\* textResult.trim().length > 100, text.length > 100
MinTextLength == 100

-----------------------------------------------------------------------------
(* Strings *)

Seg(c, n) == [c |-> c, n |-> n]

\* The string of n copies of code unit c.
Str(c, n) == IF n <= 0 THEN <<>> ELSE <<Seg(c, n)>>

\* s followed by n copies of c.
Push(s, c, n) ==
    IF n <= 0 THEN s
    ELSE IF s # <<>> /\ s[Len(s)].c = c
         THEN [s EXCEPT ![Len(s)].n = @ + n]
         ELSE Append(s, Seg(c, n))

\* String concatenation, s + t.
Concat(s, t) ==
    IF s = <<>> THEN t
    ELSE IF t = <<>> THEN s
    ELSE IF s[Len(s)].c = t[1].c
         THEN Push(s, t[1].c, t[1].n) \o Tail(t)
         ELSE s \o t

\* The two halves of a sequence of two or more elements.  The operators on
\* strings below work on the halves of their argument and join the results.
Left(s) == SubSeq(s, 1, Len(s) \div 2)

Right(s) == SubSeq(s, (Len(s) \div 2) + 1, Len(s))

\* The string of the code units of a tuple, "abc" as <<97, 98, 99>>.
RECURSIVE Chars(_)
Chars(t) ==
    IF Len(t) = 0 THEN <<>>
    ELSE IF Len(t) = 1 THEN Str(t[1], 1)
    ELSE Concat(Chars(Left(t)), Chars(Right(t)))

\* String.prototype.length
RECURSIVE length(_)
length(s) ==
    IF Len(s) = 0 THEN 0
    ELSE IF Len(s) = 1 THEN s[1].n
    ELSE length(Left(s)) + length(Right(s))

\* String.prototype.substring(0, k)
RECURSIVE substring(_, _)
substring(s, k) ==
    IF Len(s) = 0 \/ k <= 0 THEN <<>>
    ELSE IF Len(s) = 1 THEN Str(s[1].c, IF s[1].n < k THEN s[1].n ELSE k)
    ELSE IF length(Left(s)) >= k THEN substring(Left(s), k)
    ELSE Left(s) \o substring(Right(s), k - length(Left(s)))

\* /\s/ of ECMAScript: white space and line terminators.
IsSpace(c) ==
    \/ c \in {9, 10, 11, 12, 13, 32, 160, 5760, 8232, 8233, 8239, 8287,
              12288, 65279}
    \/ (c >= 8192 /\ c <= 8202)

\* String.prototype.startsWith
startsWith(s, prefix) ==
    LET k == Len(prefix)
    IN  \/ k = 0
        \/ /\ Len(s) >= k
           /\ SubSeq(s, 1, k - 1) = SubSeq(prefix, 1, k - 1)
           /\ s[k].c = prefix[k].c
           /\ s[k].n >= prefix[k].n

\* String.prototype.endsWith
endsWith(s, suffix) ==
    LET k == Len(suffix)
        d == Len(s) - Len(suffix)
    IN  \/ k = 0
        \/ /\ d >= 0
           /\ SubSeq(s, d + 2, Len(s)) = SubSeq(suffix, 2, k)
           /\ s[d + 1].c = suffix[1].c
           /\ s[d + 1].n >= suffix[1].n

\* String.prototype.includes
includes(s, part) ==
    LET k == Len(part)
    IN  \/ k = 0
        \/ /\ k = 1
           /\ \E i \in 1..Len(s) : s[i].c = part[1].c /\ s[i].n >= part[1].n
        \/ /\ k >= 2
           /\ \E i \in 1..(Len(s) - k + 1) :
                  /\ s[i].c = part[1].c
                  /\ s[i].n >= part[1].n
                  /\ SubSeq(s, i + 1, i + k - 2) = SubSeq(part, 2, k - 1)
                  /\ s[i + k - 1].c = part[k].c
                  /\ s[i + k - 1].n >= part[k].n

\* String.prototype.toLowerCase, on the letters A to Z.
RECURSIVE toLowerCase(_)
toLowerCase(s) ==
    IF Len(s) = 0 THEN <<>>
    ELSE IF Len(s) = 1
         THEN Str(IF s[1].c >= 65 /\ s[1].c <= 90
                  THEN s[1].c + 32 ELSE s[1].c, s[1].n)
    ELSE Concat(toLowerCase(Left(s)), toLowerCase(Right(s)))

\* String.prototype.trim
RECURSIVE trimStart(_)
trimStart(s) ==
    IF s # <<>> /\ IsSpace(s[1].c) THEN trimStart(Tail(s)) ELSE s

RECURSIVE trimEnd(_)
trimEnd(s) ==
    IF s # <<>> /\ IsSpace(s[Len(s)].c)
    THEN trimEnd(SubSeq(s, 1, Len(s) - 1)) ELSE s

trim(s) == trimEnd(trimStart(s))

\* The decimal digits of n >= 0, as template literals print a number.
RECURSIVE numberToString(_)
numberToString(n) ==
    IF n < 10 THEN Str(48 + n, 1)
    ELSE Concat(numberToString(n \div 10), Str(48 + (n % 10), 1))

\* Math.round(size / 1024) for size >= 0
roundKB(size) == (2 * size + 1024) \div 2048

-----------------------------------------------------------------------------
(* String literals of the page *)

\* "%PDF-"
PdfSignature ==
    Chars(
        <<37, 80, 68, 70, 45>>)

\* ".pdf"
ExtPdf ==
    Chars(
        <<46, 112, 100, 102>>)

\* ".docx"
ExtDocx ==
    Chars(
        <<46, 100, 111, 99, 120>>)

\* ".doc"
ExtDoc ==
    Chars(
        <<46, 100, 111, 99>>)

\* ".txt"
ExtTxt ==
    Chars(
        <<46, 116, 120, 116>>)

\* "application/pdf"
MimePdf ==
    Chars(
        <<97, 112, 112, 108, 105, 99, 97, 116, 105, 111, 110, 47, 112, 100,
        102>>)

\* "application/vnd.openxmlformats-officedocument.wordprocessingml.document"
MimeDocx ==
    Chars(
        <<97, 112, 112, 108, 105, 99, 97, 116, 105, 111, 110, 47, 118, 110,
        100, 46, 111, 112, 101, 110, 120, 109, 108, 102, 111, 114, 109, 97,
        116, 115, 45, 111, 102, 102, 105, 99, 101, 100, 111, 99, 117, 109,
        101, 110, 116, 46, 119, 111, 114, 100, 112, 114, 111, 99, 101, 115,
        115, 105, 110, 103, 109, 108, 46, 100, 111, 99, 117, 109, 101, 110,
        116>>)

\* "application/msword"
MimeDoc ==
    Chars(
        <<97, 112, 112, 108, 105, 99, 97, 116, 105, 111, 110, 47, 109, 115,
        119, 111, 114, 100>>)

\* "text/plain"
MimeText ==
    Chars(
        <<116, 101, 120, 116, 47, 112, 108, 97, 105, 110>>)

\* "Could not extract text from "
FallbackHead ==
    Chars(
        <<67, 111, 117, 108, 100, 32, 110, 111, 116, 32, 101, 120, 116, 114,
        97, 99, 116, 32, 116, 101, 120, 116, 32, 102, 114, 111, 109, 32>>)

\* " ("
FallbackOpen ==
    Chars(
        <<32, 40>>)

\* "unknown type"
UnknownType ==
    Chars(
        <<117, 110, 107, 110, 111, 119, 110, 32, 116, 121, 112, 101>>)

\* ")", a line of eight spaces, "File size: "
FallbackSize ==
    Chars(
        <<41, 10, 32, 32, 32, 32, 32, 32, 32, 32, 10, 70, 105, 108, 101, 32,
        115, 105, 122, 101, 58, 32>>)

\* " KB", newline, "Last modified: "
FallbackModified ==
    Chars(
        <<32, 75, 66, 10, 76, 97, 115, 116, 32, 109, 111, 100, 105, 102,
        105, 101, 100, 58, 32>>)

\* the closing advice of the fallback text
FallbackTail ==
    Chars(
        <<10, 10, 91, 84, 104, 101, 32, 102, 105, 108, 101, 32, 99, 111,
        110, 116, 101, 110, 116, 32, 99, 111, 117, 108, 100, 32, 110, 111,
        116, 32, 98, 101, 32, 97, 117, 116, 111, 109, 97, 116, 105, 99, 97,
        108, 108, 121, 32, 101, 120, 116, 114, 97, 99, 116, 101, 100, 46,
        32, 80, 108, 101, 97, 115, 101, 32, 116, 114, 121, 32, 97, 32, 100,
        105, 102, 102, 101, 114, 101, 110, 116, 32, 102, 105, 108, 101, 32,
        102, 111, 114, 109, 97, 116, 32, 40, 108, 105, 107, 101, 32, 46,
        116, 120, 116, 41, 32, 111, 114, 32, 101, 110, 115, 117, 114, 101,
        32, 116, 104, 101, 32, 102, 105, 108, 101, 32, 105, 115, 32, 110,
        111, 116, 32, 99, 111, 114, 114, 117, 112, 116, 101, 100, 32, 111,
        114, 32, 112, 97, 115, 115, 119, 111, 114, 100, 32, 112, 114, 111,
        116, 101, 99, 116, 101, 100, 46, 93>>)

\* "a.pdf"
NamePdf ==
    Chars(
        <<97, 46, 112, 100, 102>>)

\* "b.PDF"
NamePdfUpper ==
    Chars(
        <<98, 46, 80, 68, 70>>)

\* "c.docx"
NameDocx ==
    Chars(
        <<99, 46, 100, 111, 99, 120>>)

\* "d.doc"
NameDoc ==
    Chars(
        <<100, 46, 100, 111, 99>>)

\* "e.txt"
NameTxt ==
    Chars(
        <<101, 46, 116, 120, 116>>)

\* "f.TXT"
NameTxtUpper ==
    Chars(
        <<102, 46, 84, 88, 84>>)

\* "g.bin"
NameBin ==
    Chars(
        <<103, 46, 98, 105, 110>>)

\* "1/2/2025, 3:04:05 PM"
SomeDate ==
    Chars(
        <<49, 47, 50, 47, 50, 48, 50, 53, 44, 32, 51, 58, 48, 52, 58, 48,
        53, 32, 80, 77>>)

-----------------------------------------------------------------------------
(* sanitizeText *)

\* /[\x00-\x1F\x7F-\x9F]/
IsControl(c) == (c >= 0 /\ c <= 31) \/ (c >= 127 /\ c <= 159)

\* /\t/
IsTab(c) == c = 9

\* The value `undefined` where a string is expected: no string has a run of
\* no characters.
Undefined == <<[c |-> -1, n |-> 0]>>

\* !text
Falsy(text) == text = <<>> \/ text = Undefined

\* The first replacement with the class /[\x00-\x1F]/ only.
RECURSIVE removeControlLow(_)
removeControlLow(s) ==
    IF Len(s) = 0 THEN <<>>
    ELSE IF Len(s) = 1 THEN (IF s[1].c >= 0 /\ s[1].c <= 31 THEN <<>> ELSE s)
    ELSE Concat(removeControlLow(Left(s)), removeControlLow(Right(s)))

\* .replace(/[\x00-\x1F\x7F-\x9F]/g, "")
RECURSIVE removeControl(_)
removeControl(s) ==
    IF Len(s) = 0 THEN <<>>
    ELSE IF Len(s) = 1 THEN (IF IsControl(s[1].c) THEN <<>> ELSE s)
    ELSE Concat(removeControl(Left(s)), removeControl(Right(s)))

\* .replace(/\t/g, " ")
RECURSIVE replaceTabs(_)
replaceTabs(s) ==
    IF Len(s) = 0 THEN <<>>
    ELSE IF Len(s) = 1
         THEN Str(IF IsTab(s[1].c) THEN 32 ELSE s[1].c, s[1].n)
    ELSE Concat(replaceTabs(Left(s)), replaceTabs(Right(s)))

\* .replace(/\s+/g, " "): a run of white space that spans the two halves
\* has left one space at the end of the first and one at the start of the
\* second, and is one space in the result.
RECURSIVE collapseSpaces(_)
collapseSpaces(s) ==
    IF Len(s) = 0 THEN <<>>
    ELSE IF Len(s) = 1 THEN (IF IsSpace(s[1].c) THEN Str(32, 1) ELSE s)
    ELSE LET l == collapseSpaces(Left(s))
             r == collapseSpaces(Right(s))
         IN  IF l # <<>> /\ r # <<>> /\ l[Len(l)].c = 32 /\ r[1].c = 32
             THEN l \o Tail(r)
             ELSE Concat(l, r)

\* The sanitizer with its first and third replacement exchanged.
sanitizeTextReordered(text) ==
    IF text = <<>> THEN <<>>
    ELSE substring(removeControl(replaceTabs(collapseSpaces(text))),
                   MaxTextLength)

\* The sanitizer without its .substring(0, 100000).
sanitizeTextUncut(text) ==
    IF Falsy(text) THEN <<>>
    ELSE collapseSpaces(replaceTabs(removeControl(text)))

sanitizeText(text) ==
    IF Falsy(text) THEN <<>>
    ELSE substring(collapseSpaces(replaceTabs(removeControl(text))),
                   MaxTextLength)

-----------------------------------------------------------------------------
(* Files and invocations *)

File(name, type, size, content) ==
    [name |-> name, type |-> type, size |-> size, content |-> content,
     modified |-> SomeDate, pages |-> 1]

\* The file as a document of n pages.
Paged(file, n) == [file EXCEPT !.pages = n]

\* "%PDF-" and 200 letters; n letters; a space and 100 letters.
Binary == Concat(PdfSignature, Str(97, 200))

Letters(n) == Str(97, n)

Padded == Concat(Str(32, 1), Letters(MinTextLength))

\* "a", newline, tab, "b", two spaces, "c"
Lines == Chars(<<97, 10, 9, 98, 32, 32, 99>>)

\* 100,000 letters, a newline and one more letter
Long == Concat(Letters(MaxTextLength), Chars(<<10, 97>>))

\* The files the user has at hand.  A frame and resumeFile hold a file as
\* its index in this table, and 0 for null.
FileTable ==
    << Paged(File(NamePdf, MimePdf, 777216, Binary), 8),
       File(NamePdfUpper, <<>>, MaxFileSize, Letters(MinTextLength + 1)),
       File(NameDocx, MimeDocx, 777216, <<>>),
       File(NameTxt, MimeText, 777216, Lines),
       File(NameBin, <<>>, 777216, Binary),
       File(NamePdf, MimePdf, MaxFileSize + 1, Binary),
       File(NameTxtUpper, <<>>, 777216, Lines),
       File(NameDoc, <<>>, 777216, <<>>),
       File(NamePdf, MimePdf, 777216, Letters(MinTextLength)),
       File(NamePdf, MimePdf, 777216, Letters(MinTextLength - 1)),
       File(NamePdf, MimePdf, 777216, Padded),
       File(NameTxt, MimeText, 777216, Long) >>

NoFile == 0

\* The result of a step that may throw.
Ok(text) == [ok |-> TRUE, text |-> text, message |-> <<>>]

Err(message) == [ok |-> FALSE, text |-> <<>>, message |-> message]

NoRet == Err(<<>>)

\* The frames of handleFileChange: A alone when the user waits for a file to
\* be through before picking the next, A and B for two overlapping picks.
Runs == {"A", "B"}

\* How an invocation of extractTextFromPdfWithOcr ended: "returned" or
\* "threw", whether `worker` was set, and the calls of worker.terminate.
NoOcr == [how |-> "none", worker |-> FALSE, terminates |-> 0]

\* One invocation of handleFileChange.  pc is the await it is suspended at;
\* file, site (the call of extractTextFromPdfWithOcr it is in), worker (the
\* local `worker` is not null), timer (progressTracker is set and not
\* cleared), ret (what the OCR invocation will return or throw once its
\* finally block is through) and text are its locals.  The other fields
\* record what it has done: ocrCalls and enhances count the calls of
\* extractTextFromPdfWithOcr and enhanceOcrResultWithAi, terminates the
\* calls of worker.terminate in the current OCR invocation, lastOcr how the
\* OCR invocation before it ended, read how extractTextFromTextFile settled
\* ("ok", "binary" for PDF_BINARY_DATA, "error"), pages the pages handed to
\* worker.recognize by the latest OCR invocation, result the text it has
\* passed to setResumeText, outcome and source how
\* the whole invocation ended and which step produced the stored text.
IdleFrame ==
    [pc |-> "idle", file |-> NoFile, site |-> "none", worker |-> FALSE,
     timer |-> FALSE, ret |-> NoRet, text |-> <<>>, ocrCalls |-> 0,
     terminates |-> 0, enhances |-> 0, lastOcr |-> NoOcr, read |-> "none",
     pages |-> 0, result |-> <<>>,
     outcome |-> "none", source |-> "none"]

NoRow == [file_name |-> <<>>, resume_txt |-> <<>>, is_pdf |-> FALSE,
          text_extraction_method |-> "none"]

-----------------------------------------------------------------------------
(* The state of the page before any file is chosen *)

PageInit ==
    /\ resumeFile = NoFile
    /\ resumeText = <<>>
    /\ isPdfFile = FALSE
    /\ extractionMethod = "none"
    /\ ocrProgress = 0
    /\ isOcrProcessing = FALSE
    /\ hasApplied = FALSE
    /\ frames = [r \in Runs |-> IdleFrame]
    /\ orphanTimer = FALSE
    /\ application = NoRow

stateVars == <<resumeFile, resumeText, isPdfFile, extractionMethod,
               ocrProgress, isOcrProcessing>>

formVars == <<hasApplied, application>>

pageVars == <<stateVars, formVars, frames, orphanTimer>>

vars == <<pageVars, fnVars>>

-----------------------------------------------------------------------------
(* The sanitizer on its own: sanitizeText(x), then sanitizeText of that. *)

\* a control character, tab, newline, DEL, space, no-break space, "a".
SanChars == {1, 9, 10, 127, 32, 160, 97}

SanCounts == {1, 2, MaxTextLength}

RECURSIVE SanStrings(_)
SanStrings(k) ==
    IF k = 0 THEN {<<>>}
    ELSE LET shorter == SanStrings(k - 1)
         IN  shorter \cup
             { Append(s, Seg(c, n)) :
                 s \in {t \in shorter : Len(t) = k - 1},
                 c \in SanChars, n \in SanCounts }

\* Canonical encodings only.
SanInputs ==
    { s \in SanStrings(MaxSegs) :
        \A i \in 1..(Len(s) - 1) : s[i].c # s[i + 1].c }
        \cup {Undefined}

SanInit ==
    /\ PageInit
    /\ fnPc = "arg"
    /\ fnIn \in SanInputs
    /\ fnArg = <<>>
    /\ fnOut = <<>>
    /\ fnPrev = <<>>

SanApply ==
    /\ fnPc = "arg"
    /\ fnOut' = sanitizeText(fnIn)
    /\ fnPc' = "once"
    /\ UNCHANGED <<pageVars, fnIn, fnArg, fnPrev>>

SanApplyAgain ==
    /\ fnPc = "once"
    /\ fnPrev' = fnOut
    /\ fnOut' = sanitizeText(fnOut)
    /\ fnPc' = "twice"
    /\ UNCHANGED <<pageVars, fnIn, fnArg>>

SanNext == SanApply \/ SanApplyAgain

SanSpec == SanInit /\ [][SanNext]_vars

\* C10: sanitizeText(sanitizeText(x)) = sanitizeText(x) for every string x,
\* control characters, tabs, newlines, white-space runs and strings longer
\* than 100,000 characters included.
C10_SanitizeIdempotent ==
    fnPc = "twice" => fnOut = fnPrev

\* A second application has run on an input that the first one changed in
\* every way it can: characters removed, a run collapsed, the end cut off.
C10_Witness ==
    /\ fnPc = "twice"
    /\ length(fnIn) > MaxTextLength
    /\ \E i \in 1..Len(fnIn) : IsControl(fnIn[i].c)
    /\ \E i \in 1..Len(fnIn) : fnIn[i].c = 160
    /\ length(fnPrev) = MaxTextLength

\* The sanitizer has been applied to fnIn, once or twice.
SanApplied == fnPc \in {"once", "twice"}

\* C11 (bounded output): the length of sanitizeText(x) is at most 100,000
\* for every x, longer ones included, and sanitizeText returns the empty
\* string for the empty string and for undefined.
C11_BoundedOutput ==
    SanApplied =>
        /\ length(fnOut) <= MaxTextLength
        /\ Falsy(fnIn) => fnOut = <<>>
        /\ fnOut # Undefined

\* A text longer than the limit that is still longer once cleaned, cut to
\* the limit.
C11_Witness ==
    /\ fnPc = "once"
    /\ length(fnIn) > MaxTextLength
    /\ length(sanitizeTextUncut(fnIn)) > MaxTextLength
    /\ length(fnOut) = MaxTextLength

\* C12 (no control characters): sanitizeText(x) holds no character of
\* 0x00-0x1F or 0x7F-0x9F, and so no tab.
C12_NoControlCharacters ==
    SanApplied =>
        \A i \in 1..Len(fnOut) :
            ~IsControl(fnOut[i].c) /\ ~IsTab(fnOut[i].c)

\* A text with a tab and a DEL of which something is left.
C12_Witness ==
    /\ fnPc = "once"
    /\ \E i \in 1..Len(fnIn) : fnIn[i].c = 9
    /\ \E i \in 1..Len(fnIn) : fnIn[i].c = 127
    /\ fnOut # <<>>

\* C13 (tab handling): every tab of the input is turned into a space, so
\* that the result is the one for the text with a space in place of each
\* tab: a<TAB>b becomes "a b".
C13_TabsBecomeSpaces ==
    fnPc = "once" /\ ~Falsy(fnIn) =>
        fnOut = sanitizeText(replaceTabs(fnIn))

\* The text with one space in place of each of its white-space characters.
RECURSIVE AsSpaces(_)
AsSpaces(s) ==
    IF Len(s) = 0 THEN <<>>
    ELSE IF Len(s) = 1
         THEN Str(IF IsSpace(s[1].c) THEN 32 ELSE s[1].c, s[1].n)
    ELSE Concat(AsSpaces(Left(s)), AsSpaces(Right(s)))

\* C14 (white-space collapsing): every maximal run of white space of the
\* input, runs of newlines included, is one space in the result, so that two
\* words with only white space between them stay one space apart: the
\* result is the one for the text with spaces for its white space.
C14_RunsBecomeOneSpace ==
    fnPc = "once" /\ ~Falsy(fnIn) =>
        fnOut = sanitizeText(AsSpaces(fnIn))

-----------------------------------------------------------------------------
(* enhanceOcrResultWithAi *)

\* What the request to the AI service came to: fetch threw, the status was
\* not OK, response.json() threw, or a body whose "response" field is `body`
\* (the empty string also stands for a missing field: both are falsy).
ReplyKinds == {"network_error", "http_error", "bad_json", "ok"}

Reply(kind, body) == [kind |-> kind, body |-> body]

\* enhancedText && enhancedText.length >= text.length / 2
acceptsCompletionAtHalf(text, enhancedText) ==
    enhancedText # <<>> /\ 2 * length(enhancedText) >= length(text)

\* enhancedText && enhancedText.length > text.length / 2
acceptsCompletion(text, enhancedText) ==
    enhancedText # <<>> /\ 2 * length(enhancedText) > length(text)

\* The client with its fallbacks returning the text as it came.
enhanceOcrResultWithAiRaw(text, reply) ==
    IF reply.kind = "ok" /\ acceptsCompletion(text, reply.body)
    THEN sanitizeText(reply.body)
    ELSE text

enhanceOcrResultWithAi(text, reply) ==
    IF reply.kind = "ok"
    THEN IF acceptsCompletion(text, reply.body)
         THEN sanitizeText(reply.body)
         ELSE sanitizeText(text)
    ELSE sanitizeText(text)

-----------------------------------------------------------------------------
(* The enhancement client on its own: one call, one reply. *)

EnhCounts == {1, 2, 3, 4}

RECURSIVE EnhStrings(_, _)
EnhStrings(k, chars) ==
    IF k = 0 THEN {<<>>}
    ELSE LET shorter == EnhStrings(k - 1, chars)
         IN  shorter \cup
             { Append(s, Seg(c, n)) :
                 s \in {t \in shorter : Len(t) = k - 1},
                 c \in chars, n \in EnhCounts }

Canonical(S) ==
    { s \in S : \A i \in 1..(Len(s) - 1) : s[i].c # s[i + 1].c }

\* Texts of "a", newline and space; completions of "b" and space.
EnhTexts == Canonical(EnhStrings(MaxEnhSegs, {97, 10, 32}))

EnhBodies == Canonical(EnhStrings(MaxEnhSegs, {98, 32}))

EnhReplies ==
    { Reply(k, <<>>) : k \in ReplyKinds \ {"ok"} }
        \cup { Reply("ok", b) : b \in EnhBodies }

EnhInit ==
    /\ PageInit
    /\ fnPc = "arg"
    /\ fnIn \in EnhTexts
    /\ fnArg \in EnhReplies
    /\ fnOut = <<>>
    /\ fnPrev = <<>>

EnhApply ==
    /\ fnPc = "arg"
    /\ fnOut' = enhanceOcrResultWithAi(fnIn, fnArg)
    /\ fnPc' = "enhanced"
    /\ UNCHANGED <<pageVars, fnIn, fnArg, fnPrev>>

EnhNext == EnhApply

EnhSpec == EnhInit /\ [][EnhNext]_vars

\* The request failed, or its completion is shorter than half the text.
EnhFailed ==
    \/ fnArg.kind # "ok"
    \/ 2 * length(fnArg.body) < length(fnIn)

\* C8, as stated: when the request ends in a non-OK status, a network
\* exception, an unparseable body or a completion shorter than half the
\* text, the result is the text x unchanged.
C8_FallbackReturnsInputUnchanged ==
    (fnPc = "enhanced" /\ EnhFailed) => fnOut = fnIn

\* C8, amended: in each of those cases the call returns, and its result is
\* sanitizeText(x); it is x itself whenever x is already sanitized.
C8_FallbackReturnsSanitizedInput ==
    (fnPc = "enhanced" /\ EnhFailed) =>
        /\ fnOut = sanitizeText(fnIn)
        /\ (sanitizeText(fnIn) = fnIn => fnOut = fnIn)

\* A failed request on a text the sanitizer changes.
C8_Witness ==
    /\ fnPc = "enhanced"
    /\ fnArg.kind = "http_error"
    /\ sanitizeText(fnIn) # fnIn
    /\ fnOut = sanitizeText(fnIn)

\* The completion, not the text, is what came back.
EnhAccepted ==
    /\ fnOut = sanitizeText(fnArg.body)
    /\ fnOut # sanitizeText(fnIn)

\* A reply whose acceptance shows in the result.
EnhDistinct ==
    /\ fnArg.kind = "ok"
    /\ sanitizeText(fnArg.body) # sanitizeText(fnIn)

\* C9, as stated: a completion is accepted in place of the text if and only
\* if its length is at least half the length of the text.
C9_AcceptedIffAtLeastHalf ==
    (fnPc = "enhanced" /\ EnhDistinct) =>
        (EnhAccepted <=> 2 * length(fnArg.body) >= length(fnIn))

\* C9, amended: a completion is accepted if and only if it is non-empty and
\* its length is more than half the length of the text; one of exactly half
\* the length is not accepted.
C9_AcceptedIffMoreThanHalf ==
    (fnPc = "enhanced" /\ EnhDistinct) =>
        (EnhAccepted <=>
            (fnArg.body # <<>> /\ 2 * length(fnArg.body) > length(fnIn)))

\* A completion of exactly half the length of the text, turned down.
C9_Witness ==
    /\ fnPc = "enhanced"
    /\ EnhDistinct
    /\ length(fnIn) > 0
    /\ 2 * length(fnArg.body) = length(fnIn)
    /\ ~EnhAccepted


-----------------------------------------------------------------------------
(* handleFileChange and the extractors *)

\* file.size > 10 * 1024 * 1024, with >= for >
tooLargeFromLimit(file) == file.size >= MaxFileSize

\* file.size > 10 * 1024 * 1024
tooLarge(file) == file.size > MaxFileSize

isPdf(file) ==
    file.type = MimePdf \/ endsWith(toLowerCase(file.name), ExtPdf)

isWordDoc(file) ==
    \/ file.type = MimeDocx
    \/ file.type = MimeDoc
    \/ endsWith(toLowerCase(file.name), ExtDocx)
    \/ endsWith(toLowerCase(file.name), ExtDoc)

isTextFile(file) == file.type = MimeText \/ endsWith(file.name, ExtTxt)

\* The tags with the last branch writing "unknown", the default that
\* handleSubmit and the review page fall back to.
methodTagUnknown(file) ==
    IF isPdf(file) THEN "pdf_extraction"
    ELSE IF isWordDoc(file) THEN "word_document"
    ELSE IF isTextFile(file) THEN "text_file"
    ELSE "unknown"

\* The argument of setExtractionMethod in the branch the file takes.
methodTag(file) ==
    IF isPdf(file) THEN "pdf_extraction"
    ELSE IF isWordDoc(file) THEN "word_document"
    ELSE IF isTextFile(file) THEN "text_file"
    ELSE "unknown_file"

\* The PDF branch starting OCR without waiting for the direct read.
firstAwaitOcrFirst(file) ==
    IF isPdf(file) THEN "ocr_create"
    ELSE IF isWordDoc(file) THEN "word_read"
    ELSE "text_read"

\* The branches chosen by the MIME type alone.
firstAwaitByType(file) ==
    IF file.type = MimePdf THEN "pdf_read"
    ELSE IF file.type \in {MimeDocx, MimeDoc} THEN "word_read"
    ELSE "text_read"

\* The await the branch of the file suspends at first.
firstAwait(file) ==
    IF isPdf(file) THEN "pdf_read"
    ELSE IF isWordDoc(file) THEN "word_read"
    ELSE "text_read"

\* The catch block leaving the tag as it is.
failedTagKept(current) == current

\* setExtractionMethod("failed") of the catch block
failedTag(current) == "failed"

fallbackText(file) ==
    Concat(FallbackHead,
    Concat(file.name,
    Concat(FallbackOpen,
    Concat(IF file.type # <<>> THEN file.type ELSE UnknownType,
    Concat(FallbackSize,
    Concat(numberToString(roundKB(file.size)),
    Concat(FallbackModified,
    Concat(file.modified, FallbackTail))))))))

\* "PDF_BINARY_DATA"
PdfBinaryData ==
    Chars(<<80, 68, 70, 95, 66, 73, 78, 65, 82, 89, 95, 68, 65, 84, 65>>)

\* The message of any other error: "e"
OtherError == Chars(<<101>>)

\* The reader resolving whatever the content begins with.
extractTextFromTextFileNoCheck(file, readOk) ==
    IF ~readOk THEN Err(OtherError)
    ELSE Ok(sanitizeText(file.content))

\* readOk: the FileReader fired onload, not onerror.
extractTextFromTextFile(file, readOk) ==
    IF ~readOk THEN Err(OtherError)
    ELSE IF startsWith(file.content, PdfSignature)
         THEN Err(PdfBinaryData)
         ELSE Ok(sanitizeText(file.content))

\* How the reader settled, for the record of the frame.
Settled(res) ==
    IF res.ok THEN "ok"
    ELSE IF res.message = PdfBinaryData THEN "binary"
    ELSE "error"

\* "Processing is limited to 5 pages maximum"
MaxOcrPages == 5

\* textResult && textResult.trim().length >= 100
directTextSufficientFromLimit(textResult) ==
    textResult # <<>> /\ length(trim(textResult)) >= MinTextLength

\* textResult && textResult.trim().length > 100
directTextSufficient(textResult) ==
    textResult # <<>> /\ length(trim(textResult)) > MinTextLength

\* text && text.length >= 100
wordTextSubstantialFromLimit(text) ==
    text # <<>> /\ length(text) >= MinTextLength

\* text && text.length > 100
wordTextSubstantial(text) == text # <<>> /\ length(text) > MinTextLength

\* The call of extractTextFromPdfWithOcr that follows a throw of the call at
\* `site`: line 297 is inside the inner try, lines 302 and 307 inside the
\* outer one, line 312 in the outer catch.
nextSite(site) ==
    CASE site = "try" -> "catch"
      [] site = "catch" -> "last"
      [] OTHER -> "none"

\* The finally block releasing the worker only when the call succeeded.
mustTerminateOnSuccess(worker, ok) == worker /\ ok

\* if (worker) { await worker.terminate() } of the finally block
mustTerminate(worker, ok) == worker

SetState(file, text, pdf, method, progress, processing) ==
    /\ resumeFile' = file
    /\ resumeText' = text
    /\ isPdfFile' = pdf
    /\ extractionMethod' = method
    /\ ocrProgress' = progress
    /\ isOcrProcessing' = processing

\* The locals of a frame entering extractTextFromPdfWithOcr at `site`.
EnterOcr(frame, site) ==
    [frame EXCEPT !.pc = "ocr_create", !.site = site, !.worker = FALSE,
                  !.timer = FALSE, !.ret = NoRet, !.text = <<>>,
                  !.ocrCalls = @ + 1, !.terminates = 0]

\* setResumeText(text) after the chain has returned.
Store(r, frame, text, source, progress, processing) ==
    /\ SetState(resumeFile, text, isPdfFile, extractionMethod, progress,
                processing)
    /\ frames' = [frames EXCEPT ![r] =
                    [frame EXCEPT !.pc = "done", !.outcome = "stored",
                                  !.source = source, !.text = <<>>,
                                  !.ret = NoRet, !.result = text]]

\* The catch block of handleFileChange.
Catch(r, frame, progress, processing) ==
    /\ SetState(resumeFile, fallbackText(FileTable[frame.file]), isPdfFile,
                failedTag(extractionMethod), progress, processing)
    /\ frames' = [frames EXCEPT ![r] =
                    [frame EXCEPT !.pc = "done", !.outcome = "failed",
                                  !.text = <<>>, !.ret = NoRet,
                                  !.result =
                                      fallbackText(FileTable[frame.file])]]

\* extractTextFromPdfWithOcr is through its finally block: it returns
\* frame.ret.text, or throws into extractTextFromPdf, which calls it again
\* from its next catch block or lets the throw reach handleFileChange.
LeaveOcr(r, frame) ==
    LET left == [frame EXCEPT
                   !.timer = FALSE,
                   !.lastOcr = [how |-> IF frame.ret.ok THEN "returned"
                                        ELSE "threw",
                                worker |-> frame.worker,
                                terminates |-> frame.terminates]]
    IN  /\ orphanTimer' = (orphanTimer \/ frame.timer)
        /\ IF frame.ret.ok
           THEN Store(r, left, frame.ret.text, "ocr", ocrProgress, FALSE)
           ELSE IF nextSite(frame.site) = "none"
                THEN Catch(r, left, ocrProgress, FALSE)
                ELSE /\ SetState(resumeFile, resumeText, isPdfFile,
                                 extractionMethod, 0, TRUE)
                     /\ frames' = [frames EXCEPT ![r] =
                                     EnterOcr(left, nextSite(frame.site))]

\* The finally block of extractTextFromPdfWithOcr: await worker.terminate()
\* when there is a worker, and out of the function otherwise.
Finally(r, frame) ==
    IF mustTerminate(frame.worker, frame.ret.ok)
    THEN /\ frames' = [frames EXCEPT ![r] =
                         [frame EXCEPT !.pc = "ocr_terminate"]]
         /\ UNCHANGED <<stateVars, orphanTimer>>
    ELSE LeaveOcr(r, frame)

\* A frame that holds no invocation in flight.
FreePc == {"idle", "done", "rejected"}

\* The user picks `file` in the file input: handleFileChange up to its
\* first await, in a frame that is free.
HandleFileChange(r, file) ==
    /\ ~hasApplied
    /\ frames[r].pc \in FreePc
    /\ IF tooLarge(FileTable[file])
       THEN /\ frames' = [frames EXCEPT ![r] =
                            [IdleFrame EXCEPT !.pc = "rejected",
                                              !.file = file,
                                              !.outcome = "rejected"]]
            /\ UNCHANGED stateVars
       ELSE /\ frames' = [frames EXCEPT ![r] =
                            [IdleFrame EXCEPT
                               !.pc = firstAwait(FileTable[file]),
                               !.file = file]]
            /\ SetState(file, resumeText, isPdf(FileTable[file]),
                        methodTag(FileTable[file]),
                        IF firstAwait(FileTable[file]) = "word_read"
                        THEN 10 ELSE ocrProgress,
                        IF firstAwait(FileTable[file]) = "word_read"
                        THEN TRUE ELSE isOcrProcessing)
    /\ UNCHANGED <<formVars, orphanTimer, fnVars>>

\* extractTextFromTextFile settles for a text file or a file of unknown type.
TextReadDone(r, readOk) ==
    /\ frames[r].pc = "text_read"
    /\ LET res == extractTextFromTextFile(FileTable[frames[r].file], readOk)
           frame == [frames[r] EXCEPT !.read = Settled(res)]
       IN  IF res.ok
           THEN Store(r, frame, res.text, "text", ocrProgress,
                      isOcrProcessing)
           ELSE Catch(r, frame, ocrProgress, isOcrProcessing)
    /\ UNCHANGED <<formVars, orphanTimer, fnVars>>

\* The direct read letting an error other than PDF_BINARY_DATA out of
\* extractTextFromPdf.
siteAfterReadBinaryOnly(res) ==
    IF res.ok THEN "try"
    ELSE IF res.message = PdfBinaryData THEN "catch"
    ELSE "none"

\* The call of extractTextFromPdfWithOcr that follows the direct read: line
\* 297 after a text too short, line 302 after PDF_BINARY_DATA, line 307
\* after any other error.
siteAfterRead(res) ==
    IF res.ok THEN "try"
    ELSE IF res.message = PdfBinaryData THEN "catch"
    ELSE "catch"

\* extractTextFromPdf: the direct read settles.
PdfReadDone(r, readOk) ==
    /\ frames[r].pc = "pdf_read"
    /\ LET res == extractTextFromTextFile(FileTable[frames[r].file], readOk)
           frame == [frames[r] EXCEPT !.read = Settled(res)]
       IN  IF res.ok /\ directTextSufficient(res.text)
           THEN Store(r, frame, res.text, "direct", ocrProgress,
                      isOcrProcessing)
           ELSE IF siteAfterRead(res) = "none"
           THEN Catch(r, frame, ocrProgress, isOcrProcessing)
           ELSE /\ SetState(resumeFile, resumeText, isPdfFile,
                            extractionMethod, 0, TRUE)
                /\ frames' = [frames EXCEPT ![r] =
                                EnterOcr(frame, siteAfterRead(res))]
    /\ UNCHANGED <<formVars, orphanTimer, fnVars>>

\* await Tesseract.createWorker()
OcrCreateDone(r, ok) ==
    /\ frames[r].pc = "ocr_create"
    /\ IF ok
       THEN /\ frames' = [frames EXCEPT ![r].pc = "ocr_load",
                                        ![r].worker = TRUE]
            /\ UNCHANGED <<stateVars, orphanTimer>>
       ELSE Finally(r, [frames[r] EXCEPT !.ret = Err(OtherError)])
    /\ UNCHANGED <<formVars, fnVars>>

\* await worker.loadLanguage("eng")
OcrLoadDone(r, ok) ==
    /\ frames[r].pc = "ocr_load"
    /\ IF ok
       THEN /\ frames' = [frames EXCEPT ![r].pc = "ocr_init"]
            /\ UNCHANGED <<stateVars, orphanTimer>>
       ELSE Finally(r, [frames[r] EXCEPT !.ret = Err(OtherError)])
    /\ UNCHANGED <<formVars, fnVars>>

\* worker.recognize(fileUrl), with fileUrl = URL.createObjectURL(file): the
\* file as it is, all its pages.
pagesSubmitted(file) == file.pages

\* await worker.initialize("eng"), then setInterval and worker.recognize
OcrInitDone(r, ok) ==
    /\ frames[r].pc = "ocr_init"
    /\ IF ok
       THEN /\ frames' = [frames EXCEPT
                            ![r].pc = "ocr_recognize",
                            ![r].timer = TRUE,
                            ![r].pages =
                                pagesSubmitted(FileTable[frames[r].file])]
            /\ UNCHANGED <<stateVars, orphanTimer>>
       ELSE Finally(r, [frames[r] EXCEPT !.ret = Err(OtherError)])
    /\ UNCHANGED <<formVars, fnVars>>

\* await worker.recognize(fileUrl); on success clearInterval,
\* setOcrProgress(100) and the request of enhanceOcrResultWithAi.
OcrRecognizeDone(r, ok, text) ==
    /\ frames[r].pc = "ocr_recognize"
    /\ IF ok
       THEN /\ frames' = [frames EXCEPT ![r].pc = "ocr_enhance",
                                        ![r].timer = FALSE,
                                        ![r].text = text,
                                        ![r].enhances = @ + 1]
            /\ SetState(resumeFile, resumeText, isPdfFile, extractionMethod,
                        100, isOcrProcessing)
            /\ UNCHANGED orphanTimer
       ELSE Finally(r, [frames[r] EXCEPT !.ret = Err(OtherError)])
    /\ UNCHANGED <<formVars, fnVars>>

\* The request of enhanceOcrResultWithAi settles inside the OCR invocation.
OcrEnhanceDone(r, reply) ==
    /\ frames[r].pc = "ocr_enhance"
    /\ Finally(r, [frames[r] EXCEPT
                     !.ret = Ok(enhanceOcrResultWithAi(frames[r].text, reply)),
                     !.text = <<>>])
    /\ UNCHANGED <<formVars, fnVars>>

\* await worker.terminate() settles; a throw of it is caught and logged.
OcrTerminateDone(r) ==
    /\ frames[r].pc = "ocr_terminate"
    /\ LeaveOcr(r, [frames[r] EXCEPT !.terminates = @ + 1])
    /\ UNCHANGED <<formVars, fnVars>>

\* The callback of setInterval: setOcrProgress(Math.round(Math.random() * 80)
\* + 10), for the interval of a running OCR invocation or of an ended one.
ProgressTick(percent) ==
    /\ orphanTimer \/ \E r \in Runs : frames[r].timer
    /\ ocrProgress' = percent
    /\ UNCHANGED <<resumeFile, resumeText, isPdfFile, extractionMethod,
                   isOcrProcessing, formVars, frames, orphanTimer, fnVars>>

\* extractTextFromWordDocument: the FileReader settles.
WordReadDone(r, readOk) ==
    /\ frames[r].pc = "word_read"
    /\ IF readOk
       THEN /\ frames' = [frames EXCEPT ![r].pc = "word_convert"]
            /\ SetState(resumeFile, resumeText, isPdfFile, extractionMethod,
                        30, isOcrProcessing)
       ELSE Catch(r, frames[r], ocrProgress, FALSE)
    /\ UNCHANGED <<formVars, orphanTimer, fnVars>>

\* import("mammoth") and mammoth.extractRawText settle.
WordConvertDone(r, ok, text) ==
    /\ frames[r].pc = "word_convert"
    /\ IF ~ok
       THEN Catch(r, frames[r], ocrProgress, FALSE)
       ELSE IF wordTextSubstantial(text)
            THEN /\ frames' = [frames EXCEPT ![r].pc = "word_enhance",
                                             ![r].text = text,
                                             ![r].enhances = @ + 1]
                 /\ SetState(resumeFile, resumeText, isPdfFile,
                             extractionMethod, 80, isOcrProcessing)
            ELSE Store(r, frames[r], sanitizeText(text), "word", 100, FALSE)
    /\ UNCHANGED <<formVars, orphanTimer, fnVars>>

\* The request of enhanceOcrResultWithAi settles inside the Word extractor.
WordEnhanceDone(r, reply) ==
    /\ frames[r].pc = "word_enhance"
    /\ Store(r, frames[r],
             sanitizeText(enhanceOcrResultWithAi(frames[r].text, reply)),
             "word", 100, FALSE)
    /\ UNCHANGED <<formVars, orphanTimer, fnVars>>

-----------------------------------------------------------------------------
(* handleSubmit *)

\* The row of the insert, from the state the handler was rendered with.
Row ==
    [file_name |-> FileTable[resumeFile].name,
     resume_txt |-> sanitizeText(resumeText),
     is_pdf |-> isPdfFile,
     text_extraction_method |->
         IF extractionMethod = "" THEN "unknown" ELSE extractionMethod]

\* The submit button is clicked and the insert settles.  The button is
\* disabled while isOcrProcessing, and handleSubmit returns at once without
\* a resume file.  The row is built from the state the handler was rendered
\* with; the awaits before the insert read none of it.
HandleSubmit(ok) ==
    /\ ~hasApplied /\ ~isOcrProcessing
    /\ resumeFile # NoFile
    /\ IF ok
       THEN /\ application' = Row
            /\ hasApplied' = TRUE
            /\ SetState(NoFile, <<>>, isPdfFile, extractionMethod,
                        ocrProgress, isOcrProcessing)
       ELSE UNCHANGED <<application, hasApplied, stateVars>>
    /\ UNCHANGED <<frames, orphanTimer, fnVars>>

-----------------------------------------------------------------------------
(* The page and its user *)

Files == 1..Len(FileTable)

\* The user waits for a file to be through before picking the next.
OneAtATime == {"A"}

\* What worker.recognize may return as result.data.text.
OcrTexts == {Lines, Letters(4)}

\* What mammoth.extractRawText may return as result.value.
WordTexts ==
    {Letters(MinTextLength), Concat(Letters(MinTextLength), Str(10, 1))}

\* What the AI service may answer to a request about `text`.
Replies(text) ==
    { Reply(k, <<>>) : k \in ReplyKinds \ {"ok"} }
        \cup { Reply("ok", Str(98, n)) :
                 n \in {length(text) \div 2, (length(text) \div 2) + 1} }

\* Values of Math.round(Math.random() * 100) + 10
PercentsUpTo110 == {10, 110}

\* Values of Math.round(Math.random() * 80) + 10
Percents == {10, 90}

Init ==
    /\ PageInit
    /\ fnPc = "none"
    /\ fnIn = <<>>
    /\ fnArg = <<>>
    /\ fnOut = <<>>
    /\ fnPrev = <<>>

Next ==
    \/ \E r \in OneAtATime, file \in Files : HandleFileChange(r, file)
    \/ \E r \in OneAtATime, readOk \in BOOLEAN : TextReadDone(r, readOk)
    \/ \E r \in OneAtATime, readOk \in BOOLEAN : PdfReadDone(r, readOk)
    \/ \E r \in OneAtATime, ok \in BOOLEAN : OcrCreateDone(r, ok)
    \/ \E r \in OneAtATime, ok \in BOOLEAN : OcrLoadDone(r, ok)
    \/ \E r \in OneAtATime, ok \in BOOLEAN : OcrInitDone(r, ok)
    \/ \E r \in OneAtATime, ok \in BOOLEAN, text \in OcrTexts :
           OcrRecognizeDone(r, ok, text)
    \/ \E r \in OneAtATime : \E reply \in Replies(frames[r].text) :
           OcrEnhanceDone(r, reply)
    \/ \E r \in OneAtATime : OcrTerminateDone(r)
    \/ \E percent \in Percents : ProgressTick(percent)
    \/ \E r \in OneAtATime, readOk \in BOOLEAN : WordReadDone(r, readOk)
    \/ \E r \in OneAtATime, ok \in BOOLEAN, text \in WordTexts :
           WordConvertDone(r, ok, text)
    \/ \E r \in OneAtATime : \E reply \in Replies(frames[r].text) :
           WordEnhanceDone(r, reply)
    \/ \E ok \in BOOLEAN : HandleSubmit(ok)

Spec == Init /\ [][Next]_vars


-----------------------------------------------------------------------------
(* Properties of the page, one invocation at a time *)

InFlight(r) == frames[r].pc \notin FreePc

FileOf(r) == FileTable[frames[r].file]

\* "File size: <n> KB" with n = Math.round(size / 1024)
SizeLine(file) ==
    Concat(Chars(<<70, 105, 108, 101, 32, 115, 105, 122, 101, 58, 32>>),
    Concat(numberToString(roundKB(file.size)), Chars(<<32, 75, 66>>)))

\* Frame r ends in this step with its chain having thrown.
EndsFailed(r) ==
    /\ InFlight(r)
    /\ frames'[r].pc = "done"
    /\ frames'[r].outcome = "failed"

\* C1 (never-block): whichever steps of the chain fail (the file read, the
\* Word conversion, the creation of the OCR worker, its language load,
\* initialization or recognition, on every attempt), handleFileChange ends
\* without raising, and a failed chain ends with the method "failed" and a
\* placeholder text that holds the name and the size of the file.
C1_NeverBlock ==
    [][\A r \in Runs :
         /\ InFlight(r) /\ frames'[r].pc \in FreePc =>
              /\ frames'[r].pc = "done"
              /\ frames'[r].outcome \in {"stored", "failed"}
              /\ frames'[r].file = frames[r].file
         /\ EndsFailed(r) =>
              /\ extractionMethod' = "failed"
              /\ resumeText' = fallbackText(FileOf(r))
              /\ includes(resumeText', FileOf(r).name)
              /\ includes(resumeText', SizeLine(FileOf(r)))
      ]_vars

\* A PDF whose direct read and whose two OCR attempts after it have all
\* failed.
C1_Witness ==
    \E r \in Runs :
        /\ frames[r].pc = "done"
        /\ frames[r].outcome = "failed"
        /\ frames[r].read = "error"
        /\ frames[r].ocrCalls = 2
        /\ extractionMethod = "failed"
        /\ resumeText = fallbackText(FileOf(r))

\* Frame r takes a new selection in this step.
PicksFile(r) ==
    /\ frames[r].pc \in FreePc
    /\ frames'[r] # frames[r]

\* C2 (size gate): a selected file is rejected exactly when its size is
\* above 10 MiB; a rejected file starts no read, no OCR and no request, and
\* leaves the resume file, the resume text and the method tag as they were.
C2_SizeGate ==
    [][\A r \in Runs :
         PicksFile(r) =>
           LET file == FileTable[frames'[r].file]
               rejected == frames'[r].pc = "rejected"
           IN  /\ rejected <=> file.size > MaxFileSize
               /\ rejected =>
                    /\ UNCHANGED <<resumeFile, resumeText, extractionMethod,
                                   isPdfFile, ocrProgress, isOcrProcessing>>
                    /\ frames'[r].read = "none"
                    /\ frames'[r].ocrCalls = 0
                    /\ frames'[r].enhances = 0
               /\ ~rejected =>
                    /\ resumeFile' = frames'[r].file
                    /\ frames'[r].pc \notin FreePc
      ]_vars

\* A file one byte above the limit has been rejected while the file of
\* exactly the limit, taken before it, is still the resume file.
C2_Witness ==
    \E r \in Runs :
        /\ frames[r].pc = "rejected"
        /\ FileOf(r).size = MaxFileSize + 1
        /\ resumeFile # NoFile
        /\ FileTable[resumeFile].size = MaxFileSize
        /\ resumeText # <<>>
        /\ extractionMethod = "pdf_extraction"

\* C3 as stated (worker lifecycle): every OCR invocation that has ended, by
\* returning or by throwing, has released its worker exactly once.
C3_ReleasedExactlyOnce ==
    \A r \in Runs :
        frames[r].lastOcr.how # "none" => frames[r].lastOcr.terminates = 1

\* C3 (worker lifecycle): an OCR invocation that has ended has released its
\* worker exactly once when it had created one, whether it returned or
\* threw, and not at all when the creation of the worker failed; no
\* invocation releases a worker twice or without having one.
C3_ReleasedOnceIfCreated ==
    \A r \in Runs :
        /\ frames[r].lastOcr.how # "none" =>
             frames[r].lastOcr.terminates =
                 IF frames[r].lastOcr.worker THEN 1 ELSE 0
        /\ frames[r].terminates <= 1
        /\ frames[r].terminates = 1 => frames[r].worker

\* An invocation has thrown after its worker was created and released it.
C3_Witness ==
    \E r \in Runs :
        /\ frames[r].lastOcr.how = "threw"
        /\ frames[r].lastOcr.worker
        /\ frames[r].lastOcr.terminates = 1

StatedTags == {"text_file", "word_document", "pdf_extraction", "ocr", "failed"}

\* C4 as stated (method-tag domain): with a resume file in the state, and in
\* every stored application, the method is one of text_file, word_document,
\* pdf_extraction, ocr and failed.
C4_TagInStatedDomain ==
    /\ resumeFile # NoFile => extractionMethod \in StatedTags
    /\ hasApplied => application.text_extraction_method \in StatedTags

\* C4 (method-tag domain): the method is "none" until the first file is
\* accepted; with a resume file in the state, and in every stored
\* application, it is one of text_file, word_document, pdf_extraction, ocr,
\* failed and unknown_file.
C4_TagInDomain ==
    /\ resumeFile = NoFile /\ ~hasApplied => extractionMethod = "none"
    /\ resumeFile # NoFile =>
         extractionMethod \in StatedTags \cup {"unknown_file"}
    /\ hasApplied =>
         application.text_extraction_method
             \in StatedTags \cup {"unknown_file"}

\* An application has been stored for a file of no recognized type.
C4_Witness ==
    /\ hasApplied
    /\ application.text_extraction_method = "unknown_file"
    /\ ~ isPdf([name |-> application.file_name, type |-> <<>>])

\* The text in the state is the one frame r has stored for the resume file.
HoldsTextOf(r) ==
    /\ frames[r].pc = "done"
    /\ frames[r].outcome = "stored"
    /\ resumeFile = frames[r].file

\* C5 (method-tag accuracy): the method is "ocr" exactly when the stored
\* text came out of OCR, and "pdf_extraction" only for a PDF whose text was
\* read directly.
C5_OcrTagAccurate ==
    \A r \in Runs :
        HoldsTextOf(r) =>
          /\ (extractionMethod = "ocr") <=> (frames[r].source = "ocr")
          /\ extractionMethod = "pdf_extraction" =>
                 frames[r].source = "direct"

\* The text the direct read of the file of frame r resolved with.
ReadText(r) == extractTextFromTextFile(FileOf(r), TRUE).text

\* The direct read of the PDF of frame r has resolved with text.
PdfReadOk(r) ==
    /\ frames[r].pc # "idle"
    /\ isPdf(FileOf(r))
    /\ frames[r].read = "ok"

\* C6 as stated (OCR fallback threshold): after a direct read of a PDF that
\* succeeded, OCR is invoked exactly when the text has fewer than 100
\* characters; a longer text is returned without OCR and without
\* enhancement.
C6_OcrBelowLimit ==
    \A r \in Runs :
        PdfReadOk(r) =>
          /\ frames[r].ocrCalls > 0 <=> length(ReadText(r)) < MinTextLength
          /\ length(ReadText(r)) >= MinTextLength =>
               /\ frames[r].enhances = 0
               /\ frames[r].source = "direct"

\* C6 (OCR fallback threshold): after a direct read of a PDF that
\* succeeded, OCR is invoked exactly when the text, trimmed, has at most 100
\* characters; a text of more than 100 characters after trimming is stored
\* as read, without OCR and without enhancement.
C6_OcrUpToLimit ==
    \A r \in Runs :
        PdfReadOk(r) =>
          /\ frames[r].ocrCalls > 0
               <=> length(trim(ReadText(r))) <= MinTextLength
          /\ length(trim(ReadText(r))) > MinTextLength =>
               /\ frames[r].enhances = 0
               /\ frames[r].source = "direct"
               /\ HoldsTextOf(r) => resumeText = ReadText(r)

\* A PDF whose text has 101 characters and 100 after trimming has gone to
\* OCR.
C6_Witness ==
    \E r \in Runs :
        /\ PdfReadOk(r)
        /\ length(ReadText(r)) = MinTextLength + 1
        /\ length(trim(ReadText(r))) = MinTextLength
        /\ frames[r].ocrCalls > 0

\* C7 (binary-PDF routing): a content that begins with "%PDF-" makes the
\* text reader reject with PDF_BINARY_DATA and never resolve with text; for
\* a file declared as PDF the rejection always leads to an OCR invocation.
C7_BinaryPdfRouted ==
    \A r \in Runs :
        frames[r].pc # "idle" /\ startsWith(FileOf(r).content, PdfSignature)
          =>
          /\ frames[r].read # "ok"
          /\ frames[r].source \notin {"text", "direct"}
          /\ frames[r].read = "binary" /\ isPdf(FileOf(r)) =>
                 frames[r].ocrCalls >= 1
          /\ frames[r].read = "binary" /\ ~isPdf(FileOf(r)) =>
                 /\ frames[r].pc = "done"
                 /\ frames[r].outcome = "failed"

\* The reader has rejected the binary content of a declared PDF and OCR has
\* returned its text.
C7_Witness ==
    \E r \in Runs :
        /\ frames[r].pc = "done"
        /\ frames[r].source = "ocr"
        /\ frames[r].read = "binary"
        /\ isPdf(FileOf(r))
        /\ startsWith(FileOf(r).content, PdfSignature)


\* The text has what the sanitizer leaves: at most 100,000 characters, no
\* control character, newlines included, and no tab.
Sanitized(text) ==
    /\ length(text) <= MaxTextLength
    /\ \A i \in 1..Len(text) : ~IsControl(text[i].c) /\ ~IsTab(text[i].c)

\* handleFileChange is through for the resume file, one way or the other.
Finished(r) ==
    /\ frames[r].pc = "done"
    /\ resumeFile = frames[r].file

\* C15 as stated (result sanitized on every path): whenever handleFileChange
\* has finished for an accepted file, by whichever method and also with the
\* placeholder of a failure, the text it has stored has passed the
\* sanitizer.
C15_StoredTextSanitizedAlways ==
    \A r \in Runs : Finished(r) => Sanitized(resumeText)

\* C15 (result sanitized): a text that handleFileChange stores as extracted
\* (text file, Word document, direct PDF read, OCR) has passed the
\* sanitizer; the placeholder of a failure is stored as composed, with its
\* newlines, and passes the sanitizer only when handleSubmit writes the
\* application record.
C15_ExtractedTextSanitized ==
    /\ \A r \in Runs :
         /\ HoldsTextOf(r) => Sanitized(resumeText)
         /\ Finished(r) /\ frames[r].outcome = "failed" =>
              /\ resumeText = fallbackText(FileOf(r))
              /\ ~Sanitized(resumeText)
    /\ hasApplied => Sanitized(application.resume_txt)

\* A text file of more than 100,000 characters with a newline has been
\* stored, cut and without the newline.
C15_Witness ==
    \E r \in Runs :
        /\ HoldsTextOf(r)
        /\ frames[r].source = "text"
        /\ length(FileOf(r).content) > MaxTextLength
        /\ length(resumeText) = MaxTextLength


\* C16 (OCR page cap): an OCR invocation hands at most 5 pages of the PDF
\* to recognition; of a PDF of 8 pages only 5 are processed.
C16_OcrPageCap ==
    \A r \in Runs : frames[r].pages <= MaxOcrPages


\* C19 (direct-read failures never propagate): in extractTextFromPdf a
\* failure of the direct read, the binary-data signal or any other error,
\* leads to an OCR invocation and is not thrown to the caller;
\* extractTextFromPdf throws only when OCR itself has failed, in its last
\* call.
C19_ReadFailureGoesToOcr ==
    \A r \in Runs :
        frames[r].pc # "idle" /\ isPdf(FileOf(r)) =>
          /\ frames[r].read \in {"binary", "error"} => frames[r].ocrCalls >= 1
          /\ frames[r].pc = "done" /\ frames[r].outcome = "failed" =>
               /\ frames[r].lastOcr.how = "threw"
               /\ frames[r].site = "last"

\* The direct read of a PDF has failed with an error that is not the
\* binary-data signal, and OCR has given the text that is stored.
C19_Witness ==
    \E r \in Runs :
        /\ HoldsTextOf(r)
        /\ isPdf(FileOf(r))
        /\ frames[r].read = "error"
        /\ frames[r].source = "ocr"

\* C20 (OCR progress reset): once an OCR invocation has ended, by
\* completion or by failure, the progress is 0 and the processing flag is
\* false, and they stay so until the next extraction starts.
C20_ProgressReset ==
    \A r \in Runs :
        frames[r].pc = "done" /\ frames[r].lastOcr.how # "none" =>
            ocrProgress = 0 /\ ~isOcrProcessing

\* C21 (Word enhancement rule): extractTextFromWordDocument calls the AI
\* enhancement exactly when the converted text is longer than 100
\* characters; when the enhancement fails or cannot be reached, the text
\* returned is the sanitized converted text and the extraction succeeds
\* with the method "word_document".
C21_WordEnhancementRule ==
    [][\A r \in Runs :
         /\ \A text \in WordTexts :
              WordConvertDone(r, TRUE, text) =>
                /\ frames'[r].pc = "word_enhance"
                     <=> length(text) > MinTextLength
                /\ frames'[r].enhances =
                     IF length(text) > MinTextLength THEN 1 ELSE 0
                /\ frames'[r].pc # "word_enhance" =>
                     /\ frames'[r].outcome = "stored"
                     /\ resumeText' = sanitizeText(text)
         /\ \A reply \in Replies(frames[r].text) :
              WordEnhanceDone(r, reply) /\ reply.kind # "ok" =>
                /\ frames'[r].outcome = "stored"
                /\ frames'[r].source = "word"
                /\ resumeText' = sanitizeText(frames[r].text)
                /\ extractionMethod' = "word_document"
      ]_vars

\* A Word document of 101 characters, the last one a newline, stored
\* without it after an enhancement that failed.
C21_Witness ==
    \E r \in Runs :
        /\ HoldsTextOf(r)
        /\ frames[r].source = "word"
        /\ frames[r].enhances = 1
        /\ resumeText = Letters(MinTextLength)
        /\ extractionMethod = "word_document"

\* The awaits and the sources of the stored text of each chain.
PdfChain == [pcs |-> {"pdf_read", "ocr_create", "ocr_load", "ocr_init",
                      "ocr_recognize", "ocr_enhance", "ocr_terminate"},
             sources |-> {"direct", "ocr"}]

WordChain == [pcs |-> {"word_read", "word_convert", "word_enhance"},
              sources |-> {"word"}]

TextChain == [pcs |-> {"text_read"}, sources |-> {"text"}]

\* The invocation in frame r is in `chain` and has been in no other.
InChain(r, chain) ==
    /\ frames[r].pc \in chain.pcs \cup {"done"}
    /\ frames[r].outcome = "stored" => frames[r].source \in chain.sources
    /\ chain # PdfChain =>
         /\ frames[r].ocrCalls = 0
         /\ frames[r].lastOcr = NoOcr
         /\ frames[r].pages = 0
    /\ chain # WordChain /\ chain # PdfChain => frames[r].enhances = 0
    /\ chain = WordChain => frames[r].read = "none"

\* C22 (dispatch table): an accepted file goes to exactly one chain by its
\* declared type: PDF type or .pdf name to the direct read and OCR;
\* otherwise Word type or .docx/.doc name to the Word extractor; otherwise
\* text/plain or .txt, and anything else, to the plain-text reader, which
\* never runs OCR or the enhancement; isPdf is true for the first case only.
C22_DispatchTable ==
    \A r \in Runs :
        frames[r].pc \notin {"idle", "rejected"} =>
          LET file == FileOf(r)
              pdf == file.type = MimePdf
                       \/ endsWith(toLowerCase(file.name), ExtPdf)
              word == \/ file.type \in {MimeDocx, MimeDoc}
                      \/ endsWith(toLowerCase(file.name), ExtDocx)
                      \/ endsWith(toLowerCase(file.name), ExtDoc)
          IN  /\ pdf => InChain(r, PdfChain)
              /\ ~pdf /\ word => InChain(r, WordChain)
              /\ ~pdf /\ ~word => InChain(r, TextChain)
              /\ resumeFile = frames[r].file => isPdfFile = pdf

\* A file named b.PDF with no type has gone through the PDF chain.
C22_Witness ==
    \E r \in Runs :
        /\ HoldsTextOf(r)
        /\ FileOf(r).name = NamePdfUpper
        /\ FileOf(r).type = <<>>
        /\ frames[r].source = "direct"
        /\ isPdfFile

\* What frame r has done so far, it has done in the order of its chain.
StepsInOrder(r) ==
    /\ frames[r].pc \in PdfChain.pcs \ {"pdf_read"} =>
         /\ frames[r].read # "none"
         /\ frames[r].ocrCalls >= 1
    /\ frames[r].ocrCalls >= 1 => frames[r].read # "none"
    /\ frames[r].pc \in {"ocr_create", "ocr_load", "ocr_init"} =>
         frames[r].text = <<>>
    /\ frames[r].pc = "ocr_recognize" =>
         /\ frames[r].text = <<>>
         /\ frames[r].pages >= 1
    /\ frames[r].pc = "ocr_enhance" =>
         /\ frames[r].text \in OcrTexts
         /\ frames[r].pages >= 1
         /\ frames[r].enhances >= 1
    /\ frames[r].pc \in {"word_read", "word_convert"} =>
         frames[r].enhances = 0
    /\ frames[r].pc = "word_enhance" =>
         /\ frames[r].text \in WordTexts
         /\ frames[r].enhances = 1
    /\ frames[r].outcome \in {"stored", "failed"} <=> frames[r].pc = "done"

\* C23 (sequential steps): within one run no step starts before the result
\* of the step before it is known: OCR starts only after the direct read
\* has resolved or rejected, the enhancement is requested only after
\* recognition or the Word conversion has returned, with the text it
\* returned, and the resume text is stored only when the chain of a run has
\* finished.
C23_SequentialSteps ==
    [][/\ \A r \in Runs : StepsInOrder(r)'
       /\ resumeText' # resumeText =>
            \/ \E r \in Runs : InFlight(r) /\ frames'[r].pc = "done"
            \/ hasApplied' /\ ~hasApplied
      ]_vars

\* Recognition has returned its text and the enhancement of it is awaited.
C23_Witness ==
    \E r \in Runs :
        /\ frames[r].pc = "ocr_enhance"
        /\ frames[r].read = "binary"
        /\ frames[r].text = Lines
        /\ frames[r].ocrCalls = 2

\* C24 (OCR at most once per run): within one run of a PDF
\* extractTextFromPdfWithOcr is invoked at most once, also when that
\* invocation fails.
C24_OcrAtMostOnce ==
    \A r \in Runs : frames[r].ocrCalls <= 1

\* C28 (progress timer stops with the invocation): the interval an OCR
\* invocation starts is stopped on every exit path, so that the progress
\* changes by a tick only while an invocation waits for recognition.
C28_TimerStopsWithInvocation ==
    [][(\E percent \in Percents : ProgressTick(percent)) =>
          \E r \in Runs : frames[r].pc = "ocr_recognize"
      ]_vars

\* C30 (progress range): the progress is an integer from 0 to 100 in every
\* state, whatever the OCR runs, Word extractions and ticks before it.
C30_ProgressRange == ocrProgress \in 0..100

\* A tick of an interval that has outlived its invocation has set the
\* progress of a finished run to 90.
C30_Witness ==
    /\ ocrProgress = 90
    /\ orphanTimer
    /\ \E r \in Runs : frames[r].pc = "done"

\* C26 (submit and extraction in flight): every application record that
\* handleSubmit inserts holds as resume_txt the sanitized result of the
\* finished extraction of the file whose name, PDF flag and method tag it
\* holds; no record is made with the empty or stale text of a file whose
\* extraction has not finished.
C26_SubmittedTextIsFinishedResult ==
    hasApplied =>
        \E r \in Runs :
            /\ frames[r].pc = "done"
            /\ application.file_name = FileOf(r).name
            /\ application.resume_txt = sanitizeText(frames[r].result)
            /\ application.is_pdf = isPdf(FileOf(r))
            /\ application.text_extraction_method =
                   IF frames[r].outcome = "failed" THEN "failed"
                   ELSE methodTag(FileOf(r))

-----------------------------------------------------------------------------
(* The page with the awaits that settle by themselves *)

\* The FileReader, the steps of the OCR worker before and after recognition
\* and the Word conversion settle, with a result or with an error.  Nothing
\* makes worker.recognize settle, nothing makes the AI service answer, and
\* the user need not do anything.
Settling ==
    /\ \A r \in OneAtATime :
         /\ WF_vars(\E readOk \in BOOLEAN : TextReadDone(r, readOk))
         /\ WF_vars(\E readOk \in BOOLEAN : PdfReadDone(r, readOk))
         /\ WF_vars(\E ok \in BOOLEAN : OcrCreateDone(r, ok))
         /\ WF_vars(\E ok \in BOOLEAN : OcrLoadDone(r, ok))
         /\ WF_vars(\E ok \in BOOLEAN : OcrInitDone(r, ok))
         /\ WF_vars(OcrTerminateDone(r))
         /\ WF_vars(\E readOk \in BOOLEAN : WordReadDone(r, readOk))
         /\ WF_vars(\E ok \in BOOLEAN, text \in WordTexts :
                        WordConvertDone(r, ok, text))

FairSpec == Init /\ [][Next]_vars /\ Settling

\* C17 (OCR cancellation): an OCR operation in flight can be cancelled or
\* abandoned, after which its worker is released and the processing flag is
\* false, without recognition having to produce a result: an invocation
\* waiting for worker.recognize gets to its end even when recognition gives
\* nothing.
C17_CancelledOcrEnds ==
    \A r \in OneAtATime :
        (frames[r].pc = "ocr_recognize")
            ~> (frames[r].pc \in FreePc /\ ~isOcrProcessing)

\* C18 (enhancement never stalls): a run that has reached the request to
\* the AI service finishes, with its result stored and the processing flag
\* false, even when the service never answers.
C18_EnhancementNeverStalls ==
    \A r \in OneAtATime :
        (frames[r].pc \in {"ocr_enhance", "word_enhance"})
            ~> (frames[r].pc = "done" /\ ~isOcrProcessing)


\* C29 (worker released though the enhancement hangs): a worker that has
\* been created is terminated once recognition has returned, even when the
\* request to the AI service that follows never completes.
C29_WorkerReleasedThoughEnhancementHangs ==
    \A r \in OneAtATime :
        (frames[r].pc = "ocr_enhance" /\ frames[r].worker)
            ~> (frames[r].pc # "ocr_enhance"
                  /\ frames[r].lastOcr.worker
                  /\ frames[r].lastOcr.terminates = 1)


-----------------------------------------------------------------------------
(* Two selections that overlap: a file is picked in frame A, and a second
   one in frame B while or after the first is extracted. *)

PickFirst(file) ==
    /\ frames["A"].pc = "idle"
    /\ frames["B"].pc = "idle"
    /\ HandleFileChange("A", file)

PickSecond(file) ==
    /\ frames["A"].pc \notin {"idle", "rejected"}
    /\ frames["B"].pc = "idle"
    /\ HandleFileChange("B", file)

\* A PDF that goes to OCR, a Word document and a text file.
OverlapFiles == {1, 3, 4}

OverlapNext ==
    \/ \E file \in OverlapFiles : PickFirst(file)
    \/ \E file \in OverlapFiles : PickSecond(file)
    \/ \E r \in Runs, readOk \in BOOLEAN : TextReadDone(r, readOk)
    \/ \E r \in Runs, readOk \in BOOLEAN : PdfReadDone(r, readOk)
    \/ \E r \in Runs, ok \in BOOLEAN : OcrCreateDone(r, ok)
    \/ \E r \in Runs, ok \in BOOLEAN : OcrLoadDone(r, ok)
    \/ \E r \in Runs, ok \in BOOLEAN : OcrInitDone(r, ok)
    \/ \E r \in Runs, ok \in BOOLEAN, text \in OcrTexts :
           OcrRecognizeDone(r, ok, text)
    \/ \E r \in Runs : \E reply \in Replies(frames[r].text) :
           OcrEnhanceDone(r, reply)
    \/ \E r \in Runs : OcrTerminateDone(r)
    \/ \E percent \in Percents : ProgressTick(percent)
    \/ \E r \in Runs, readOk \in BOOLEAN : WordReadDone(r, readOk)
    \/ \E r \in Runs, ok \in BOOLEAN, text \in WordTexts :
           WordConvertDone(r, ok, text)
    \/ \E r \in Runs : \E reply \in Replies(frames[r].text) :
           WordEnhanceDone(r, reply)
    \/ \E ok \in BOOLEAN : HandleSubmit(ok)

OverlapSpec == Init /\ [][OverlapNext]_vars


\* C25 (overlapping selections): when a second file is selected while the
\* first is still extracted, then once both runs have finished the resume
\* text, the PDF flag and the method tag are those of the second file,
\* whichever run finished first.
C25_LastSelectionWins ==
    (frames["A"].pc = "done" /\ frames["B"].pc = "done"
        /\ resumeFile # NoFile) =>
        /\ resumeFile = frames["B"].file
        /\ resumeText = frames["B"].result
        /\ isPdfFile = isPdf(FileOf("B"))
        /\ extractionMethod =
               IF frames["B"].outcome = "failed" THEN "failed"
               ELSE methodTag(FileOf("B"))

\* C27 (processing flag covers the work in flight): isOcrProcessing is true
\* in every state in which an OCR invocation or a Word extraction is in
\* flight, also when two files are extracted at overlapping times and one of
\* them finishes first.
C27_FlagCoversWorkInFlight ==
    \A r \in Runs :
        frames[r].pc \in (PdfChain.pcs \ {"pdf_read"}) \cup WordChain.pcs
            => isOcrProcessing

=============================================================================
